---- MODULE Spec2Model ----
(***************************************************************************)
(* A model of the dashi histogram: the binning schemes                     *)
(* (histogram::binning::general, histogram::binning::uniform), their       *)
(* composition into a fixed-rank container (histogram_impl) and the        *)
(* accumulation engine (histogram::fill / fill_with_weight).               *)
(*                                                                         *)
(* A C++ double is modelled as a small binary floating-point format with   *)
(* round-to-nearest-even, signed infinities and NaN.  A finite double is   *)
(* the integer k of its value k / 2^FracBits; it is representable when     *)
(* |k| = m * 2^s with m < 2^MantBits and |k| <= MaxFinite.  Every          *)
(* arithmetic operation computes the exact result and rounds it, as IEEE   *)
(* 754 does, so the order of operations of the source matters here as it   *)
(* does in the program.                                                    *)
(***************************************************************************)
EXTENDS Integers, Sequences, FiniteSets, TLC

\* ------------------------------------------------------------------------
\* Bounds of the model
\* ------------------------------------------------------------------------
\* bits of the significand of a modelled double (53 in the program)
MantBits == 4
\* a modelled double is a multiple of 2^-FracBits
FracBits == 3
\* the largest finite double is (2^MantBits - 1) * 2^ExpRange units
ExpRange == 4
\* the most successful fill calls a behaviour makes
MaxFills == 2
\* the largest requested bin count of an equispaced scheme
MaxBins == 3
\* the most caller-supplied edges of a non-equispaced scheme
MaxEdges == 3

\* ------------------------------------------------------------------------
\* double
\* ------------------------------------------------------------------------
RECURSIVE Pow2(_)
Pow2(n) == IF n <= 0 THEN 1 ELSE 2 * Pow2(n - 1)

Abs(x) == IF x < 0 THEN -x ELSE x

\* one unit in the last place of the fixed grid: the double 1.0 is Unit
Unit == Pow2(FracBits)

MaxFinite == (Pow2(MantBits) - 1) * Pow2(ExpRange)

\* std::numeric_limits<double>::infinity() and its negation, and a NaN
PosInf == MaxFinite + 1
NegInf == -PosInf
NaN == PosInf + 1

IsNaN(x) == x = NaN
IsInf(x) == x = PosInf \/ x = NegInf
IsFinite(x) == ~IsNaN(x) /\ ~IsInf(x)

\* the comparisons of doubles: every comparison with a NaN is false
Lt(a, b) == ~IsNaN(a) /\ ~IsNaN(b) /\ a < b
Gt(a, b) == Lt(b, a)
Ge(a, b) == ~IsNaN(a) /\ ~IsNaN(b) /\ a >= b
Le(a, b) == Ge(b, a)

\* the least s >= 0 with mag / den < 2^(MantBits + s): the exponent of the ulp
RECURSIVE UlpShift(_, _, _)
UlpShift(mag, den, s) ==
    IF mag < den * Pow2(MantBits + s) THEN s ELSE UlpShift(mag, den, s + 1)

\* the integer nearest to num / den (num >= 0, den > 0), ties to the even one
RoundHalfEven(num, den) ==
    LET q == num \div den
        r == num % den
    IN  IF 2 * r < den THEN q
        ELSE IF 2 * r > den THEN q + 1
        ELSE IF q % 2 = 0 THEN q ELSE q + 1

\* the double nearest to the exact value num / den units (den > 0)
Round(num, den) ==
    LET mag == Abs(num)
        s == UlpShift(mag, den, 0)
        k == RoundHalfEven(mag, den * Pow2(s)) * Pow2(s)
    IN  IF k > MaxFinite THEN (IF num < 0 THEN NegInf ELSE PosInf)
        ELSE IF num < 0 THEN -k ELSE k

\* an integer (size_t) converted to double
ToDouble(i) == Round(i * Unit, 1)

FNeg(a) == IF IsNaN(a) THEN NaN ELSE -a

Sign(a) == IF a < 0 THEN -1 ELSE 1

SignedInf(s) == IF s < 0 THEN NegInf ELSE PosInf

FAdd(a, b) ==
    IF IsNaN(a) \/ IsNaN(b) THEN NaN
    ELSE IF IsInf(a) /\ IsInf(b) THEN (IF a = b THEN a ELSE NaN)
    ELSE IF IsInf(a) THEN a
    ELSE IF IsInf(b) THEN b
    ELSE Round(a + b, 1)

FSub(a, b) == FAdd(a, FNeg(b))

FMul(a, b) ==
    IF IsNaN(a) \/ IsNaN(b) THEN NaN
    ELSE IF IsInf(a) \/ IsInf(b)
         THEN (IF a = 0 \/ b = 0 THEN NaN ELSE SignedInf(Sign(a) * Sign(b)))
    ELSE Round(a * b, Unit)

FDiv(a, b) ==
    IF IsNaN(a) \/ IsNaN(b) THEN NaN
    ELSE IF IsInf(a) THEN (IF IsInf(b) THEN NaN ELSE SignedInf(Sign(a) * Sign(b)))
    ELSE IF IsInf(b) THEN 0
    ELSE IF b = 0 THEN (IF a = 0 THEN NaN ELSE SignedInf(Sign(a)))
    ELSE Round(Sign(b) * a * Unit, Abs(b))

\* the largest r with r * r <= n
RECURSIVE ISqrtFrom(_, _)
ISqrtFrom(n, r) == IF (r + 1) * (r + 1) > n THEN r ELSE ISqrtFrom(n, r + 1)

\* the least s >= 0 with sqrt(n) < 2^(MantBits + s)
RECURSIVE SqrtShift(_, _)
SqrtShift(n, s) ==
    IF n < Pow2(2 * (MantBits + s)) THEN s ELSE SqrtShift(n, s + 1)

\* std::sqrt: the double nearest to the exact square root
FSqrt(a) ==
    IF IsNaN(a) \/ a < 0 THEN NaN
    ELSE IF a = PosInf THEN PosInf
    ELSE LET n == a * Unit
             s == SqrtShift(n, 0)
             m == ISqrtFrom(n \div Pow2(2 * s), 0)
             half == (2 * m + 1) * (2 * m + 1) * Pow2(2 * s)
             up == 4 * n > half \/ (4 * n = half /\ m % 2 = 1)
         IN  (IF up THEN m + 1 ELSE m) * Pow2(s)

\* std::floor
FFloor(a) == IF IsFinite(a) THEN (a \div Unit) * Unit ELSE a

\* every finite double of the format, and every double
RECURSIVE FiniteUpTo(_)
FiniteUpTo(s) ==
    IF s < 0 THEN {}
    ELSE {m * Pow2(s) : m \in 0 .. (Pow2(MantBits) - 1)} \cup FiniteUpTo(s - 1)

FiniteDoubles == {k : k \in FiniteUpTo(ExpRange)} \cup {-k : k \in FiniteUpTo(ExpRange)}

Doubles == FiniteDoubles \cup {NegInf, PosInf, NaN}

\* ------------------------------------------------------------------------
\* binning::detail: the transformations of the equispaced scheme
\* ------------------------------------------------------------------------
\* detail::identity and detail::power<2>; log10, cosine and power<N> call
\* libm functions whose rounding the language does not fix, and are left out
Transformations == {"identity", "power2"}

T_map(tr, v) == IF tr = "power2" THEN FMul(v, v) ELSE v

T_imap(tr, v) == IF tr = "power2" THEN FSqrt(v) ELSE v

\* ------------------------------------------------------------------------
\* binning::general
\* ------------------------------------------------------------------------
Front(s) == s[1]

Back(s) == s[Len(s)]

\* general::general had it forgotten the overflow sentinel
general_without_overflow(edges) ==
    [kind |-> "general",
     edges_ |-> (IF Gt(Front(edges), NegInf) THEN <<NegInf>> ELSE <<>>) \o edges]

\* general::general had it inserted the underflow sentinel without looking
\* at the first supplied edge
general_always_prepending(edges) ==
    [kind |-> "general",
     edges_ |-> <<NegInf>>
                \o edges
                \o (IF Lt(Back(edges), PosInf) THEN <<PosInf>> ELSE <<>>)]

\* general::general: the stored edges_, with the sentinels inserted
general(edges) ==
    [kind |-> "general",
     edges_ |-> (IF Gt(Front(edges), NegInf) THEN <<NegInf>> ELSE <<>>)
                \o edges
                \o (IF Lt(Back(edges), PosInf) THEN <<PosInf>> ELSE <<>>)]

\* std::lower_bound in the place of std::upper_bound: the first edge that is
\* not less than value
RECURSIVE lower_bound(_, _, _, _)
lower_bound(e, first, len, value) ==
    IF len <= 0 THEN first
    ELSE LET half == len \div 2
             middle == first + half
         IN  IF Lt(e[middle + 1], value)
             THEN lower_bound(e, middle + 1, len - half - 1, value)
             ELSE lower_bound(e, first, half, value)

\* std::upper_bound over edges_[first+1 .. first+len]: the binary search of
\* the library, which halves the range on each comparison value < *middle
RECURSIVE upper_bound(_, _, _, _)
upper_bound(e, first, len, value) ==
    IF len <= 0 THEN first
    ELSE LET half == len \div 2
             middle == first + half
         IN  IF Lt(value, e[middle + 1])
             THEN upper_bound(e, first, half, value)
             ELSE upper_bound(e, middle + 1, len - half - 1, value)

\* general::index: j - 1; -1 stands for the failed assert(j > 0)
general_index(d, value) ==
    LET j == upper_bound(d.edges_, 0, Len(d.edges_), value)
    IN  j - 1

\* ------------------------------------------------------------------------
\* binning::uniform<Transformation>
\* ------------------------------------------------------------------------
\* uniform::map, from the members offset_ and range_
uniform_map(tr, offset, range, value) ==
    T_map(tr, FAdd(FMul(range, value), offset))

\* uniform::imap
uniform_imap(d, value) ==
    FDiv(FSub(T_imap(d.tr, value), d.offset_), d.range_)

\* uniform::uniform had it taken nbins for the number of steps
uniform_with_nbins_steps(tr, low, high, n) ==
    LET offset == T_imap(tr, low)
        range == FSub(T_imap(tr, high), T_imap(tr, low))
        nsteps == n
    IN  [kind |-> "uniform",
         tr |-> tr,
         offset_ |-> offset,
         range_ |-> range,
         min_ |-> uniform_map(tr, offset, range, ToDouble(0)),
         max_ |-> uniform_map(tr, offset, range, ToDouble(1)),
         nsteps_ |-> nsteps,
         edges_ |-> <<NegInf>>
                    \o [i \in 1 .. nsteps |->
                          uniform_map(tr, offset, range,
                                      FDiv(ToDouble(i - 1), ToDouble(nsteps - 1)))]
                    \o <<PosInf>>]

\* uniform::uniform
uniform(tr, low, high, n) ==
    LET offset == T_imap(tr, low)
        range == FSub(T_imap(tr, high), T_imap(tr, low))
        nsteps == n + 1
    IN  [kind |-> "uniform",
         tr |-> tr,
         offset_ |-> offset,
         range_ |-> range,
         min_ |-> uniform_map(tr, offset, range, ToDouble(0)),
         max_ |-> uniform_map(tr, offset, range, ToDouble(1)),
         nsteps_ |-> nsteps,
         edges_ |-> <<NegInf>>
                    \o [i \in 1 .. nsteps |->
                          uniform_map(tr, offset, range,
                                      FDiv(ToDouble(i - 1), ToDouble(nsteps - 1)))]
                    \o <<PosInf>>]

\* size_t(double): the integer part of a finite double that is >= 0; the
\* conversion of any other double is undefined, and is marked by Undefined
Undefined == 0 - 2

SizeT(x) == IF IsFinite(x) /\ x >= 0 THEN x \div Unit ELSE Undefined

\* uniform::index had it tested value <= min_
uniform_index_underflow_at_min(d, value) ==
    IF Le(value, d.min_) THEN 0
    ELSE IF Ge(value, d.max_) THEN Len(d.edges_) - 2
    ELSE SizeT(FFloor(FMul(ToDouble(d.nsteps_ - 1), uniform_imap(d, value)))) + 1

\* uniform::index
uniform_index(d, value) ==
    IF Lt(value, d.min_) THEN 0
    ELSE IF Ge(value, d.max_) THEN Len(d.edges_) - 2
    ELSE SizeT(FFloor(FMul(ToDouble(d.nsteps_ - 1), uniform_imap(d, value)))) + 1

\* ------------------------------------------------------------------------
\* the members every dimension type offers
\* ------------------------------------------------------------------------
\* general::nbins is edges_.size() - 1, uniform::nbins is nsteps_ + 1
nbins(d) == IF d.kind = "general" THEN Len(d.edges_) - 1 ELSE d.nsteps_ + 1

index(d, value) ==
    IF d.kind = "general" THEN general_index(d, value) ELSE uniform_index(d, value)

edges(d) == d.edges_

\* a dimension built from the arguments of its constructor call
construct(a) ==
    IF a.kind = "general" THEN general(a.edges)
    ELSE uniform(a.tr, a.low, a.high, a.nbins)

\* ------------------------------------------------------------------------
\* histogram_impl<T, Ts...>: the dimensions ds = <<T, Ts...>>, head first
\* ------------------------------------------------------------------------
extent(ds) == nbins(Head(ds))

RECURSIVE impl_size(_)
impl_size(ds) == IF ds = <<>> THEN 1 ELSE extent(ds) * impl_size(Tail(ds))

\* histogram_impl::stride had it returned its own size()
impl_stride_own_size(ds) == IF ds = <<>> THEN 1 ELSE impl_size(ds)

impl_stride(ds) == IF ds = <<>> THEN 1 ELSE impl_size(Tail(ds))

RECURSIVE impl_index(_, _)
impl_index(ds, args) ==
    IF ds = <<>> THEN 0
    ELSE index(Head(ds), Head(args)) * impl_stride(ds)
         + impl_index(Tail(ds), Tail(args))

\* histogram_impl::valid had it looked at its own coordinate only
impl_valid_first_only(args) == args = <<>> \/ ~IsNaN(Head(args))

RECURSIVE impl_valid(_)
impl_valid(args) ==
    IF args = <<>> THEN TRUE
    ELSE ~IsNaN(Head(args)) /\ impl_valid(Tail(args))

\* histogram::shape, through fill_shape
RECURSIVE shape(_)
shape(ds) == IF ds = <<>> THEN <<>> ELSE <<extent(ds)>> \o shape(Tail(ds))

\* histogram::binedges, through fill_edges
RECURSIVE binedges(_)
binedges(ds) == IF ds = <<>> THEN <<>> ELSE <<edges(Head(ds))>> \o binedges(Tail(ds))

\* ------------------------------------------------------------------------
\* The state
\* ------------------------------------------------------------------------
VARIABLES
    dims,             \* the dimension_ members, first dimension first
    ctor_args,        \* the arguments each dimension was constructed with
    created,          \* whether the histogram has been constructed
    n_entries_,       \* histogram::n_entries_
    bincontent_,      \* histogram::bincontent_ (element i of the vector is [i+1])
    squaredweights_,  \* histogram::squaredweights_
    last,             \* the last call: its name, arguments and outcome
    calls,            \* the fill calls that returned true: offset and weight
    pc,               \* where each calling thread is in fill_with_weight
    frame,            \* each calling thread's arguments and locals
    lock              \* the callers' own mutex around the calls, if any

\* the threads that share one histogram
callers == <<pc, frame, lock>>

vars == <<dims, ctor_args, created, n_entries_, bincontent_, squaredweights_,
          last, calls, pc, frame, lock>>

\* two threads call into the histogram
Threads == {"t1", "t2"}

NoFrame == [weight |-> 0, args |-> <<>>, offset |-> 0, loaded |-> 0, ret |-> "none"]

\* the doubles D(i) = i.0 and H(i) = i / 8 written in the source of a caller
D(i) == ToDouble(i)

H(i) == Round(i * Unit, 8)

NoCall == [op |-> "none", weight |-> 0, args |-> <<>>, ret |-> "none", offset |-> 0]

Init ==
    /\ dims = <<>>
    /\ ctor_args = <<>>
    /\ created = FALSE
    /\ n_entries_ = 0
    /\ bincontent_ = <<>>
    /\ squaredweights_ = <<>>
    /\ last = NoCall
    /\ calls = <<>>
    /\ pc = [t \in Threads |-> "idle"]
    /\ frame = [t \in Threads |-> NoFrame]
    /\ lock = "unused"

\* ------------------------------------------------------------------------
\* The binning schemes on their own: construction and lookup
\* ------------------------------------------------------------------------
\* the edges a caller supplies: -inf, +inf and finite values, two of them
\* not multiples of 1/2
EdgeValues == {NegInf, D(-1), D(0), H(5), D(1), D(2), PosInf}

\* the non-empty ascending edge lists of at most MaxEdges edges
EdgeLists ==
    {e \in UNION {[1 .. n -> EdgeValues] : n \in 1 .. MaxEdges} :
        \A i \in 1 .. Len(e) - 1 : e[i] <= e[i + 1]}

\* the limits low < high of an equispaced scheme; high - low is finite.  The
\* last two use every bit of the significand, so that their difference is
\* not a double
LimitValues ==
    {D(-2), D(-1), H(-5), D(0), H(1), D(1), H(11), D(2), D(3),
     1 - Pow2(MantBits), Pow2(MantBits) + 2}

\* a transformation is used on its domain: power<2> takes the square root
\* of low and high
InDomain(tr, low) == tr = "identity" \/ low >= 0

UniformArgs ==
    {a \in [kind : {"uniform"}, tr : Transformations, low : LimitValues,
            high : LimitValues, nbins : 1 .. MaxBins] :
        a.low < a.high /\ InDomain(a.tr, a.low)}

\* binning::general(edges)
NewGeneral(e) ==
    /\ ~created
    /\ dims = <<>>
    /\ dims' = <<general(e)>>
    /\ ctor_args' = <<[kind |-> "general", edges |-> e]>>
    /\ last' = [NoCall EXCEPT !.op = "general"]
    /\ UNCHANGED <<created, n_entries_, bincontent_, squaredweights_, calls, callers>>

\* binning::uniform<Transformation>(low, high, nbins)
NewUniform(a) ==
    /\ ~created
    /\ dims = <<>>
    /\ dims' = <<uniform(a.tr, a.low, a.high, a.nbins)>>
    /\ ctor_args' = <<a>>
    /\ last' = [NoCall EXCEPT !.op = "uniform"]
    /\ UNCHANGED <<created, n_entries_, bincontent_, squaredweights_, calls, callers>>

\* dimension.index(value), called once on the scheme itself: the lookup is
\* const, so a second call from the same scheme finds nothing new
Index(value) ==
    /\ ~created
    /\ Len(dims) = 1
    /\ last.op # "index"
    /\ LET i == index(dims[1], value)
       IN  last' = [op |-> "index", weight |-> 0, args |-> <<value>>,
                    ret |-> (IF i >= 0 THEN "returned"
                             ELSE IF dims[1].kind = "general" THEN "assert"
                             ELSE "undefined"),
                    offset |-> i]
    /\ UNCHANGED <<dims, ctor_args, created, n_entries_, bincontent_, squaredweights_,
                   calls, callers>>

NextBinning ==
    \/ \E e \in EdgeLists : NewGeneral(e)
    \/ \E a \in UniformArgs : NewUniform(a)
    \/ \E value \in Doubles : Index(value)

SpecBinning == Init /\ [][NextBinning]_vars

\* ------------------------------------------------------------------------
\* The histogram: construction and filling
\* ------------------------------------------------------------------------
GeneralArgs(e) == [kind |-> "general", edges |-> e]

LinearArgs(low, high, n) ==
    [kind |-> "uniform", tr |-> "identity", low |-> low, high |-> high, nbins |-> n]

PowerArgs(low, high, n) ==
    [kind |-> "uniform", tr |-> "power2", low |-> low, high |-> high, nbins |-> n]

\* the create(...) calls: the two dimension types alone, in both orders as in
\* the demonstration program, and a histogram of rank 3
HistogramArgs ==
    { <<GeneralArgs(<<D(0), D(1)>>)>>,
      <<LinearArgs(D(0), D(2), 2)>>,
      <<PowerArgs(D(1), D(3), 2)>>,
      <<LinearArgs(D(0), D(2), 1), GeneralArgs(<<D(0), D(1), D(2)>>)>>,
      <<GeneralArgs(<<D(0), D(1)>>), LinearArgs(D(-1), D(2), 1)>>,
      <<GeneralArgs(<<D(0)>>), LinearArgs(D(0), D(1), 1), GeneralArgs(<<D(1)>>)>> }

\* the coordinates and the weights callers fill with
FillValues == {NaN, NegInf, PosInf, D(-1), D(1), H(12)}

\* the coordinates tried in every dimension of a histogram of rank 2, and of
\* rank 3
PairValues == {NaN, NegInf, PosInf, D(-1), D(1)}

FewValues == {NaN, PosInf, D(-1), D(1)}

NaNCount(args) == Cardinality({i \in DOMAIN args : IsNaN(args[i])})

\* the coordinate tuples of a fill call: every tuple of a histogram of rank 1;
\* of a higher rank, every tuple without a NaN, and the tuples with one NaN
\* beside coordinates that are 1.0 or +inf
CoordinatesOf(rank) ==
    LET values == IF rank > 2 THEN FewValues
                  ELSE IF rank = 2 THEN PairValues ELSE FillValues
    IN  {args \in [1 .. rank -> values] :
            \/ rank = 1
            \/ NaNCount(args) = 0
            \/ /\ NaNCount(args) = 1
               /\ \A i \in 1 .. rank : args[i] \in {NaN, D(1), PosInf}}

Weights == {H(-12)}

Zeros(n) == [i \in 1 .. n |-> 0]

\* histogram::histogram, through create(ts...)
create(ts) ==
    /\ ~created
    /\ dims = <<>>
    /\ dims' = [i \in 1 .. Len(ts) |-> construct(ts[i])]
    /\ ctor_args' = ts
    /\ created' = TRUE
    /\ n_entries_' = 0
    /\ bincontent_' = Zeros(impl_size(dims'))
    /\ squaredweights_' = Zeros(impl_size(dims'))
    /\ last' = [NoCall EXCEPT !.op = "create"]
    /\ calls' = <<>>
    /\ UNCHANGED callers

\* fill_with_weight squaring the bin's new weight sum in place of adding the
\* square of the weight
Accumulate_square_of_sum(op, weight, args) ==
    IF impl_valid(args)
    THEN LET offset == impl_index(dims, args)
         IN  IF offset >= 0 /\ offset < Len(bincontent_)
             THEN /\ bincontent_' =
                        [bincontent_ EXCEPT ![offset + 1] = FAdd(@, weight)]
                  /\ squaredweights_' =
                        [squaredweights_ EXCEPT
                            ![offset + 1] = FMul(bincontent_'[offset + 1],
                                                 bincontent_'[offset + 1])]
                  /\ n_entries_' = n_entries_ + 1
                  /\ last' = [op |-> op, weight |-> weight, args |-> args,
                              ret |-> "true", offset |-> offset]
                  /\ calls' = Append(calls, [offset |-> offset, weight |-> weight])
             ELSE /\ last' = [op |-> op, weight |-> weight, args |-> args,
                              ret |-> "out_of_range", offset |-> offset]
                  /\ UNCHANGED <<n_entries_, bincontent_, squaredweights_, calls>>
    ELSE /\ last' = [op |-> op, weight |-> weight, args |-> args,
                     ret |-> "false", offset |-> 0]
         /\ UNCHANGED <<n_entries_, bincontent_, squaredweights_, calls>>

\* the body of histogram::fill_with_weight, called as op
Accumulate(op, weight, args) ==
    IF impl_valid(args)
    THEN LET offset == impl_index(dims, args)
         IN  IF offset >= 0 /\ offset < Len(bincontent_)
             THEN /\ bincontent_' =
                        [bincontent_ EXCEPT ![offset + 1] = FAdd(@, weight)]
                  /\ squaredweights_' =
                        [squaredweights_ EXCEPT
                            ![offset + 1] = FAdd(@, FMul(weight, weight))]
                  /\ n_entries_' = n_entries_ + 1
                  /\ last' = [op |-> op, weight |-> weight, args |-> args,
                              ret |-> "true", offset |-> offset]
                  /\ calls' = Append(calls, [offset |-> offset, weight |-> weight])
             \* std::vector::at throws std::out_of_range before anything is written
             ELSE /\ last' = [op |-> op, weight |-> weight, args |-> args,
                              ret |-> "out_of_range", offset |-> offset]
                  /\ UNCHANGED <<n_entries_, bincontent_, squaredweights_, calls>>
    ELSE /\ last' = [op |-> op, weight |-> weight, args |-> args,
                     ret |-> "false", offset |-> 0]
         /\ UNCHANGED <<n_entries_, bincontent_, squaredweights_, calls>>

fill_with_weight(weight, args) ==
    /\ created
    /\ n_entries_ < MaxFills
    /\ Accumulate("fill_with_weight", weight, args)
    /\ UNCHANGED <<dims, ctor_args, created, callers>>

\* histogram::fill: fill_with_weight(1., args...)
fill(args) ==
    /\ created
    /\ n_entries_ < MaxFills
    /\ Accumulate("fill", D(1), args)
    /\ UNCHANGED <<dims, ctor_args, created, callers>>

Coordinates == CoordinatesOf(Len(dims))

Next ==
    \/ \E ts \in HistogramArgs : create(ts)
    \/ \E args \in Coordinates : fill(args)
    \/ \E w \in Weights, args \in Coordinates : fill_with_weight(w, args)

Spec == Init /\ [][Next]_vars

\* ------------------------------------------------------------------------
\* Two threads filling one histogram
\* ------------------------------------------------------------------------
\* the coordinates and the weights the threads fill with
ThreadCoordinates ==
    {args \in Coordinates : \A i \in 1 .. Len(args) : args[i] \in {NaN, D(1), PosInf}}

ThreadWeights == {D(1), H(-12)}

\* the callers agree, before the first call, to hold a mutex of their own
\* around every call
Serialize ==
    /\ created
    /\ lock = "unused"
    /\ \A t \in Threads : pc[t] = "idle"
    /\ lock' = "free"
    /\ UNCHANGED <<dims, ctor_args, created, n_entries_, bincontent_,
                   squaredweights_, last, calls, pc, frame>>

\* the call of thread t returns ret; a caller holding the mutex releases it
Return(t, ret) ==
    /\ pc' = [pc EXCEPT ![t] = "returned"]
    /\ frame' = [frame EXCEPT ![t].ret = ret]
    /\ lock' = IF lock = t THEN "free" ELSE lock

\* thread t calls fill_with_weight(weight, args...): valid(args...) and
\* index(args...) read the arguments and the dimensions, which no call writes
Enter(t, weight, args) ==
    /\ created
    /\ pc[t] = "idle"
    /\ lock \in {"unused", "free"}
    /\ IF impl_valid(args)
       THEN /\ pc' = [pc EXCEPT ![t] = "bincontent_load"]
            /\ frame' = [frame EXCEPT ![t] =
                            [weight |-> weight, args |-> args,
                             offset |-> impl_index(dims, args),
                             loaded |-> 0, ret |-> "none"]]
            /\ lock' = IF lock = "free" THEN t ELSE lock
       ELSE /\ pc' = [pc EXCEPT ![t] = "returned"]
            /\ frame' = [frame EXCEPT ![t] =
                            [weight |-> weight, args |-> args, offset |-> 0,
                             loaded |-> 0, ret |-> "false"]]
            /\ lock' = lock
    /\ UNCHANGED <<dims, ctor_args, created, n_entries_, bincontent_,
                   squaredweights_, last, calls>>

\* bincontent_.at(offset) += weight, the read: at() throws past the end
LoadBin(t) ==
    /\ pc[t] = "bincontent_load"
    /\ IF frame[t].offset >= 0 /\ frame[t].offset < Len(bincontent_)
       THEN /\ pc' = [pc EXCEPT ![t] = "bincontent_store"]
            /\ frame' = [frame EXCEPT ![t].loaded = bincontent_[frame[t].offset + 1]]
            /\ lock' = lock
       ELSE Return(t, "out_of_range")
    /\ UNCHANGED <<dims, ctor_args, created, n_entries_, bincontent_,
                   squaredweights_, last, calls>>

\* a thread storing the weight in place of the sum it computed
StoreBin_assigning(t) ==
    /\ pc[t] = "bincontent_store"
    /\ bincontent_' = [bincontent_ EXCEPT ![frame[t].offset + 1] = frame[t].weight]
    /\ pc' = [pc EXCEPT ![t] = "squaredweights_load"]
    /\ UNCHANGED <<dims, ctor_args, created, n_entries_, squaredweights_, last,
                   calls, frame, lock>>

\* bincontent_.at(offset) += weight, the write
StoreBin(t) ==
    /\ pc[t] = "bincontent_store"
    /\ bincontent_' = [bincontent_ EXCEPT
                          ![frame[t].offset + 1] = FAdd(frame[t].loaded, frame[t].weight)]
    /\ pc' = [pc EXCEPT ![t] = "squaredweights_load"]
    /\ UNCHANGED <<dims, ctor_args, created, n_entries_, squaredweights_, last,
                   calls, frame, lock>>

\* squaredweights_.at(offset) += weight*weight, the read
LoadSquared(t) ==
    /\ pc[t] = "squaredweights_load"
    /\ pc' = [pc EXCEPT ![t] = "squaredweights_store"]
    /\ frame' = [frame EXCEPT ![t].loaded = squaredweights_[frame[t].offset + 1]]
    /\ UNCHANGED <<dims, ctor_args, created, n_entries_, bincontent_,
                   squaredweights_, last, calls, lock>>

\* squaredweights_.at(offset) += weight*weight, the write
StoreSquared(t) ==
    /\ pc[t] = "squaredweights_store"
    /\ squaredweights_' =
          [squaredweights_ EXCEPT
              ![frame[t].offset + 1] =
                  FAdd(frame[t].loaded, FMul(frame[t].weight, frame[t].weight))]
    /\ pc' = [pc EXCEPT ![t] = "n_entries_load"]
    /\ UNCHANGED <<dims, ctor_args, created, n_entries_, bincontent_, last,
                   calls, frame, lock>>

\* n_entries_++, the read
LoadEntries(t) ==
    /\ pc[t] = "n_entries_load"
    /\ pc' = [pc EXCEPT ![t] = "n_entries_store"]
    /\ frame' = [frame EXCEPT ![t].loaded = n_entries_]
    /\ UNCHANGED <<dims, ctor_args, created, n_entries_, bincontent_,
                   squaredweights_, last, calls, lock>>

\* n_entries_++, the write, and return true
StoreEntries(t) ==
    /\ pc[t] = "n_entries_store"
    /\ n_entries_' = frame[t].loaded + 1
    /\ calls' = Append(calls, [offset |-> frame[t].offset, weight |-> frame[t].weight])
    /\ Return(t, "true")
    /\ UNCHANGED <<dims, ctor_args, created, bincontent_, squaredweights_, last>>

NextThreads ==
    \/ \E ts \in HistogramArgs : create(ts)
    \/ Serialize
    \/ \E t \in Threads, w \in ThreadWeights, args \in ThreadCoordinates :
          Enter(t, w, args)
    \/ \E t \in Threads : LoadBin(t)
    \/ \E t \in Threads : StoreBin(t)
    \/ \E t \in Threads : LoadSquared(t)
    \/ \E t \in Threads : StoreSquared(t)
    \/ \E t \in Threads : LoadEntries(t)
    \/ \E t \in Threads : StoreEntries(t)

SpecThreads == Init /\ [][NextThreads]_vars

\* ------------------------------------------------------------------------
\* What the claims speak of
\* ------------------------------------------------------------------------
\* the scheme under test, the arguments it was built from, and the lookup
\* that was made on it
Scheme == dims[1]

Args == ctor_args[1]

Looked == ~created /\ last.op = "index"

LookedGeneral == Looked /\ Scheme.kind = "general"

LookedUniform == Looked /\ Scheme.kind = "uniform"

Value == last.args[1]

Built == ~created /\ Len(dims) = 1

StrictlyAscending(e) == \A i \in 1 .. Len(e) - 1 : Lt(e[i], e[i + 1])

NonDecreasing(e) == \A i \in 1 .. Len(e) - 1 : Le(e[i], e[i + 1])

\* bin i (from 0) of the edge list e holds v: e[i] <= v < e[i+1]
InBin(e, i, v) ==
    /\ i >= 0
    /\ i <= Len(e) - 2
    /\ Le(e[i + 1], v)
    /\ Lt(v, e[i + 2])

\* ------------------------------------------------------------------------
\* C4  A non-equispaced scheme built from strictly ascending edges places
\*     every finite value v in the one bin i with E[i] <= v < E[i+1], so a
\*     value equal to an interior edge E[k] goes to bin k, not to bin k-1.
\* ------------------------------------------------------------------------
C4_GeneralIndexBrackets ==
    (LookedGeneral /\ StrictlyAscending(Args.edges) /\ IsFinite(Value)) =>
        /\ last.ret = "returned"
        /\ InBin(Scheme.edges_, last.offset, Value)
        /\ \A k \in 0 .. Len(Scheme.edges_) - 2 :
              InBin(Scheme.edges_, k, Value) => k = last.offset

\* a finite value on the interior edge E[2] of a scheme with two interior
\* edges has been looked up
C4_Witness ==
    /\ LookedGeneral
    /\ StrictlyAscending(Args.edges)
    /\ Len(Scheme.edges_) = 4
    /\ IsFinite(Value)
    /\ Value = Scheme.edges_[3]
    /\ last.offset = 2

\* ------------------------------------------------------------------------
\* C5  For any non-equispaced scheme index(-inf) = 0 and
\*     index(+inf) = len(E) - 2, the last bin.
\* ------------------------------------------------------------------------
C5_GeneralIndexOfInfinities ==
    LookedGeneral =>
        /\ Value = NegInf => last.offset = 0
        /\ Value = PosInf => last.offset = Len(Scheme.edges_) - 2

\* ------------------------------------------------------------------------
\* C6  For any equispaced scheme built with low < high, index(value) = 0 for
\*     every value < low, index(value) = bin_count - 1 for every
\*     value >= high (value = high and +inf included), and index(low) is
\*     not 0.
\* ------------------------------------------------------------------------
\* the claim as stated, for every transformation
C6_AsStated ==
    LookedUniform =>
        /\ Lt(Value, Args.low) => last.offset = 0
        /\ Ge(Value, Args.high) => last.offset = nbins(Scheme) - 1
        /\ Value = Args.low => last.offset # 0

\* as amended: the tests are made against min_ = map(0) and max_ = map(1),
\* the first and the last finite stored edge; under the identity
\* transformation every value < low gets index 0, every value >= high the
\* last index, and low itself index 1
C6_UniformSentinelBins ==
    LookedUniform =>
        /\ Scheme.min_ = Scheme.edges_[2]
        /\ Scheme.max_ = Scheme.edges_[Len(Scheme.edges_) - 1]
        /\ Lt(Value, Scheme.min_) => last.offset = 0
        /\ Ge(Value, Scheme.max_) => last.offset = nbins(Scheme) - 1
        /\ Args.tr = "identity" =>
              /\ Lt(Value, Args.low) => last.offset = 0
              /\ Ge(Value, Args.high) => last.offset = nbins(Scheme) - 1
              /\ Value = Args.low => last.offset = 1

\* a scheme whose first finite edge is not the low it was built with has
\* sent a value below that edge to the underflow bin
C6_Witness ==
    /\ LookedUniform
    /\ Scheme.min_ # Args.low
    /\ IsFinite(Value)
    /\ Lt(Value, Scheme.min_)
    /\ last.offset = 0

\* ------------------------------------------------------------------------
\* C8  Every constructed scheme, non-equispaced from any non-empty ascending
\*     edge list (lists that begin with -inf or end with +inf included) or
\*     equispaced with a requested bin count >= 1, has edges that begin with
\*     -inf and end with +inf, edge_count = bin_count + 1 and bin_count >= 2.
\* ------------------------------------------------------------------------
HasFiniteEdge(e) == \E i \in 1 .. Len(e) : IsFinite(e[i])

\* the claim as stated
C8_AsStated ==
    Built =>
        /\ Front(edges(Scheme)) = NegInf
        /\ Back(edges(Scheme)) = PosInf
        /\ Len(edges(Scheme)) = nbins(Scheme) + 1
        /\ nbins(Scheme) >= 2

\* as amended: bin_count >= 1, and bin_count >= 2 when the scheme is
\* equispaced or the caller supplied at least one finite edge
C8_SchemeShape ==
    Built =>
        /\ Front(edges(Scheme)) = NegInf
        /\ Back(edges(Scheme)) = PosInf
        /\ Len(edges(Scheme)) = nbins(Scheme) + 1
        /\ nbins(Scheme) >= 1
        /\ (Scheme.kind = "uniform" \/ HasFiniteEdge(Args.edges)) =>
              nbins(Scheme) >= 2

\* a non-equispaced scheme has been built from a list that already begins
\* with -inf and holds one finite edge
C8_Witness ==
    /\ Built
    /\ last.op = "general"
    /\ Front(Args.edges) = NegInf
    /\ HasFiniteEdge(Args.edges)
    /\ nbins(Scheme) = 2

\* ------------------------------------------------------------------------
\* C9  Non-equispaced construction prepends -inf exactly when the first
\*     supplied edge is finite and appends +inf exactly when the last one is
\*     finite, keeps the supplied edges in order and never doubles an
\*     infinity the caller supplied; k finite edges give k + 2 stored edges
\*     and bin_count = k + 1 (edges 0, 1, 2: extent 4 in shape()).
\* ------------------------------------------------------------------------
AllFinite(e) == \A i \in 1 .. Len(e) : IsFinite(e[i])

BuiltGeneral == Built /\ Scheme.kind = "general"

\* what follows from inserting the sentinels as C9 says they are
C9_Consequences ==
    /\ AllFinite(Args.edges) =>
          /\ Len(Scheme.edges_) = Len(Args.edges) + 2
          /\ nbins(Scheme) = Len(Args.edges) + 1
    /\ Args.edges = <<D(0), D(1), D(2)>> => shape(dims) = <<4>>

\* the claim as stated
C9_AsStated ==
    BuiltGeneral =>
        /\ Scheme.edges_ =
              (IF IsFinite(Front(Args.edges)) THEN <<NegInf>> ELSE <<>>)
              \o Args.edges
              \o (IF IsFinite(Back(Args.edges)) THEN <<PosInf>> ELSE <<>>)
        /\ C9_Consequences

\* as amended: -inf is prepended exactly when the first supplied edge is not
\* -inf, +inf is appended exactly when the last supplied edge is not +inf
C9_SentinelInsertion ==
    BuiltGeneral =>
        /\ Scheme.edges_ =
              (IF Front(Args.edges) # NegInf THEN <<NegInf>> ELSE <<>>)
              \o Args.edges
              \o (IF Back(Args.edges) # PosInf THEN <<PosInf>> ELSE <<>>)
        /\ C9_Consequences

\* the scheme of the demonstration program, general({0, 1, 2}), has been built
C9_Witness ==
    /\ BuiltGeneral
    /\ last.op = "general"
    /\ Args.edges = <<D(0), D(1), D(2)>>
    /\ Scheme.edges_ = <<NegInf, D(0), D(1), D(2), PosInf>>

\* ------------------------------------------------------------------------
\* C10 An equispaced scheme with the identity transformation, low < high and
\*     requested bin count n >= 1 stores n + 3 edges: -inf, the n + 1
\*     ascending values low + k * (high - low) / n for k = 0 .. n, the first
\*     equal to low and the last equal to high, then +inf; bin_count()
\*     returns n + 2.
\* ------------------------------------------------------------------------
BuiltLinear == Built /\ Scheme.kind = "uniform" /\ Args.tr = "identity"

\* low + k * (high - low) / n, computed in doubles
C10_EdgeAsStated(k) ==
    FAdd(Args.low,
         FDiv(FMul(D(k), FSub(Args.high, Args.low)), D(Args.nbins)))

\* (high - low) * (k / n) + low, computed in doubles
C10_EdgeAsComputed(k) ==
    FAdd(FMul(FSub(Args.high, Args.low), FDiv(D(k), D(Args.nbins))), Args.low)

\* the claim as stated
C10_AsStated ==
    BuiltLinear =>
        /\ Len(Scheme.edges_) = Args.nbins + 3
        /\ Front(Scheme.edges_) = NegInf
        /\ Back(Scheme.edges_) = PosInf
        /\ \A k \in 0 .. Args.nbins : Scheme.edges_[k + 2] = C10_EdgeAsStated(k)
        /\ NonDecreasing(Scheme.edges_)
        /\ Scheme.edges_[2] = Args.low
        /\ Scheme.edges_[Args.nbins + 2] = Args.high
        /\ nbins(Scheme) = Args.nbins + 2

\* as amended: the finite edges are (high - low) * (k / n) + low with every
\* operation rounded; the first is low, the last is (high - low) + low
C10_LinearEdges ==
    BuiltLinear =>
        /\ Len(Scheme.edges_) = Args.nbins + 3
        /\ Front(Scheme.edges_) = NegInf
        /\ Back(Scheme.edges_) = PosInf
        /\ \A k \in 0 .. Args.nbins : Scheme.edges_[k + 2] = C10_EdgeAsComputed(k)
        /\ NonDecreasing(Scheme.edges_)
        /\ Scheme.edges_[2] = Args.low
        /\ Scheme.edges_[Args.nbins + 2] = FAdd(FSub(Args.high, Args.low), Args.low)
        /\ nbins(Scheme) = Args.nbins + 2

\* a scheme has been built whose last finite edge is not the high it was
\* given
C10_Witness ==
    /\ BuiltLinear
    /\ last.op = "uniform"
    /\ Args.nbins >= 2
    /\ Scheme.edges_[Args.nbins + 2] # Args.high

\* ------------------------------------------------------------------------
\* The fill calls of a histogram
\* ------------------------------------------------------------------------
FillOps == {"fill", "fill_with_weight"}

\* this step is a fill or fill_with_weight call, described by last'
FillCall == created /\ last'.op \in FillOps

\* the weight the call accumulates: fill(coords) stands for weight 1.0
CallWeight == IF last'.op = "fill" THEN D(1) ELSE last'.weight

\* the step adds the call's weight and its square to bin k (from 0) of the
\* two arrays and leaves every other bin as it was
AddsToBin(k) ==
    /\ k >= 0
    /\ k < Len(bincontent_)
    /\ bincontent_' = [bincontent_ EXCEPT ![k + 1] = FAdd(@, CallWeight)]
    /\ squaredweights_' =
          [squaredweights_ EXCEPT ![k + 1] = FAdd(@, FMul(CallWeight, CallWeight))]

\* ------------------------------------------------------------------------
\* C1  One fill_with_weight(w, coords) call with no NaN among the coordinates
\*     returns true, increases n_entries by exactly 1, adds w to the
\*     weight-sum and w * w to the squared-weight-sum of one bin, the same in
\*     both arrays, and leaves every other bin unchanged; fill(coords) has
\*     the effect of fill_with_weight(1, coords).
\* ------------------------------------------------------------------------
C1_FillEffect ==
    [][(FillCall /\ NaNCount(last'.args) = 0) =>
          /\ last'.ret = "true"
          /\ n_entries_' = n_entries_ + 1
          /\ \E k \in 0 .. Len(bincontent_) - 1 : AddsToBin(k)]_vars

\* ------------------------------------------------------------------------
\* C2  A fill or fill_with_weight call with a NaN among its coordinates, in
\*     any position and whatever the other coordinates and the weight,
\*     returns false, raises no error, and leaves n_entries and every bin of
\*     both arrays unchanged.
\* ------------------------------------------------------------------------
C2_NaNRejected ==
    [][(FillCall /\ NaNCount(last'.args) >= 1) =>
          /\ last'.ret = "false"
          /\ UNCHANGED <<n_entries_, bincontent_, squaredweights_>>]_vars

\* a call whose second coordinate is NaN has returned false on a histogram of
\* rank 2 that holds an entry
C2_Witness ==
    /\ created
    /\ Len(dims) = 2
    /\ n_entries_ = 1
    /\ last.op = "fill_with_weight"
    /\ last.ret = "false"
    /\ ~IsNaN(last.args[1])
    /\ IsNaN(last.args[2])

\* ------------------------------------------------------------------------
\* C3  Coordinates outside the declared range and infinite coordinates are
\*     never rejected: in either kind of dimension, in any position, fill
\*     returns true and the entry goes to the dimension's underflow bin
\*     (index 0) when the value is below every finite edge and to its
\*     overflow bin (index bin_count - 1) when it is at or above the last
\*     finite edge, +inf included.
\* ------------------------------------------------------------------------
FiniteEdges(d) == {edges(d)[i] : i \in 1 .. Len(edges(d))} \cap FiniteDoubles

BelowRange(d, v) == \A e \in FiniteEdges(d) : Lt(v, e)

AboveRange(d, v) == \A e \in FiniteEdges(d) : Ge(v, e)

\* the product of the bin counts of dimensions lo .. hi
RECURSIVE BinsProduct(_, _)
BinsProduct(lo, hi) ==
    IF lo > hi THEN 1 ELSE BinsProduct(lo, hi - 1) * nbins(dims[hi])

\* the index of dimension i in the bin at flat offset k, row-major
IndexIn(k, i) == (k \div BinsProduct(i + 1, Len(dims))) % nbins(dims[i])

C3_OutOfRangeAccepted ==
    [][(FillCall /\ NaNCount(last'.args) = 0) =>
          /\ impl_valid(last'.args)
          /\ last'.ret = "true"
          /\ \E k \in 0 .. Len(bincontent_) - 1 :
                /\ AddsToBin(k)
                /\ \A i \in 1 .. Len(dims) :
                      /\ BelowRange(dims[i], last'.args[i]) => IndexIn(k, i) = 0
                      /\ AboveRange(dims[i], last'.args[i]) =>
                            IndexIn(k, i) = nbins(dims[i]) - 1]_vars

\* ------------------------------------------------------------------------
\* C7  For a histogram of rank r with bin counts n_1 .. n_r: size() is the
\*     product of all n_i; the stride of dimension i is the product of the
\*     n_j with j > i (1 for the last dimension); and the flat offset fill
\*     uses for the coordinates c is the sum of index_i(c_i) * stride_i.
\* ------------------------------------------------------------------------
RECURSIVE SumOfIndexTimesStride(_, _)
SumOfIndexTimesStride(args, i) ==
    IF i = 0 THEN 0
    ELSE SumOfIndexTimesStride(args, i - 1)
         + index(dims[i], args[i]) * BinsProduct(i + 1, Len(dims))

\* the dimensions i .. r: the histogram_impl base that holds dimension i
ImplFrom(i) == SubSeq(dims, i, Len(dims))

C7_RowMajorLayout ==
    created =>
        /\ impl_size(dims) = BinsProduct(1, Len(dims))
        /\ Len(bincontent_) = BinsProduct(1, Len(dims))
        /\ Len(squaredweights_) = BinsProduct(1, Len(dims))
        /\ \A i \in 1 .. Len(dims) :
              impl_stride(ImplFrom(i)) = BinsProduct(i + 1, Len(dims))
        /\ impl_stride(ImplFrom(Len(dims))) = 1
        /\ (last.op \in FillOps /\ last.ret # "false") =>
              last.offset = SumOfIndexTimesStride(last.args, Len(dims))

\* a histogram of rank 3 has been filled in a bin whose three indices all
\* count: offset 1 * 6 + 2 * 2 + 1
C7_Witness ==
    /\ created
    /\ Len(dims) = 3
    /\ shape(dims) = <<2, 3, 2>>
    /\ last.op = "fill"
    /\ last.ret = "true"
    /\ last.offset = 11
    /\ bincontent_[12] = D(1)

\* ------------------------------------------------------------------------
\* C13 For every tuple of coordinates without a NaN and every combination of
\*     dimension kinds, each per-dimension index lies in 0 .. bin_count - 1,
\*     so that the flat offset of the fill is below size(): the checked
\*     array access does not fail, the assertion of the binary search does
\*     not fire, and no index carries over into a bin of a neighbouring index
\*     of an earlier dimension.
\* ------------------------------------------------------------------------
C13_IndicesInRange ==
    (created /\ last.op \in FillOps /\ NaNCount(last.args) = 0) =>
        /\ \A i \in 1 .. Len(dims) :
              /\ index(dims[i], last.args[i]) >= 0
              /\ index(dims[i], last.args[i]) <= nbins(dims[i]) - 1
        /\ last.offset >= 0
        /\ last.offset < impl_size(dims)
        /\ last.ret = "true"
        /\ \A i \in 1 .. Len(dims) :
              IndexIn(last.offset, i) = index(dims[i], last.args[i])

\* ------------------------------------------------------------------------
\* C14 For an equispaced scheme with the identity transformation, low < high
\*     and n >= 1 requested bins, the O(1) lookup agrees with the scheme's
\*     own edge list: for every finite value v, index(v) = i satisfies
\*     edges[i] <= v < edges[i+1] (for low <= v < high, i is in 1 .. n), it
\*     is the bin a binary search over the same edges returns, and index is
\*     non-decreasing in v.
\* ------------------------------------------------------------------------
LookedLinear == LookedUniform /\ Args.tr = "identity"

\* the non-equispaced scheme that holds the edges of the scheme d
SameEdges(d) == [kind |-> "general", edges_ |-> d.edges_]

C14_LookupMatchesEdges ==
    (LookedLinear /\ IsFinite(Value)) =>
        /\ InBin(Scheme.edges_, last.offset, Value)
        /\ (Le(Args.low, Value) /\ Lt(Value, Args.high)) =>
              (last.offset >= 1 /\ last.offset <= Args.nbins)
        /\ last.offset = general_index(SameEdges(Scheme), Value)
        /\ \A v \in FiniteDoubles :
              Le(v, Value) => index(Scheme, v) <= last.offset

\* ------------------------------------------------------------------------
\* C11 After any sequence of fill and fill_with_weight calls, n_entries is
\*     the number of calls that returned true, whatever their weights, and
\*     every bin holds the sum of the weights, and the sum of the squared
\*     weights, of the calls that returned true and landed in it, added in
\*     double arithmetic in the order of the calls; two calls with weight w
\*     at the same coordinates leave w + w and w * w + w * w, not the square
\*     of the sum.  Nothing lowers n_entries or resets a bin.
\* ------------------------------------------------------------------------
\* the calls of the log that landed in bin k (from 0), in call order
RECURSIVE LandedIn(_, _)
LandedIn(log, k) ==
    IF log = <<>> THEN <<>>
    ELSE (IF Head(log).offset = k THEN <<Head(log).weight>> ELSE <<>>)
         \o LandedIn(Tail(log), k)

\* w[1] + ... + w[n] from 0.0, left to right
RECURSIVE SumOf(_)
SumOf(w) ==
    IF w = <<>> THEN 0
    ELSE FAdd(SumOf(SubSeq(w, 1, Len(w) - 1)), w[Len(w)])

Squares(w) == [i \in 1 .. Len(w) |-> FMul(w[i], w[i])]

C11_SumsOfSuccessfulCalls ==
    (created /\ \A t \in Threads : pc[t] = "idle") =>
        /\ n_entries_ = Len(calls)
        /\ Len(bincontent_) = impl_size(dims)
        /\ Len(squaredweights_) = impl_size(dims)
        /\ \A k \in 0 .. Len(bincontent_) - 1 :
              LET w == LandedIn(calls, k)
              IN  /\ bincontent_[k + 1] = SumOf(w)
                  /\ squaredweights_[k + 1] = SumOf(Squares(w))
                  /\ (Len(w) = 2 /\ w[1] = w[2]) =>
                        /\ bincontent_[k + 1] = FAdd(w[1], w[1])
                        /\ squaredweights_[k + 1] =
                              FAdd(FMul(w[1], w[1]), FMul(w[1], w[1]))

\* two fill_with_weight calls with the weight -1.5 have landed in one bin,
\* which holds -3.0 and 4.5 (the square of the sum is 9.0)
C11_Witness ==
    /\ created
    /\ n_entries_ = 2
    /\ last.op = "fill_with_weight"
    /\ last.ret = "true"
    /\ LandedIn(calls, last.offset) = <<H(-12), H(-12)>>
    /\ bincontent_[last.offset + 1] = D(-3)
    /\ squaredweights_[last.offset + 1] = H(36)
    /\ squaredweights_[last.offset + 1] # FMul(D(-3), D(-3))

\* ------------------------------------------------------------------------
\* C12 Calls of fill and fill_with_weight from several threads on one
\*     histogram are unsafe: the read and the write of a bin's weight sum, of
\*     its squared weight sum and of n_entries are separate and unguarded,
\*     so two calls can interleave and leave n_entries or a bin sum smaller
\*     than the same calls made one after the other (the state of
\*     C12_Witness); when the callers serialize the calls themselves, no
\*     update is lost.
\* ------------------------------------------------------------------------
Returned == created /\ \A t \in Threads : pc[t] = "returned"

C12_SerializedCallsLoseNothing ==
    Returned =>
        /\ n_entries_ <= Len(calls)
        /\ Len(calls) >= 1 => n_entries_ >= 1
        /\ lock # "unused" =>
              /\ n_entries_ = Len(calls)
              /\ \A k \in 0 .. Len(bincontent_) - 1 :
                    /\ bincontent_[k + 1] = SumOf(LandedIn(calls, k))
                    /\ squaredweights_[k + 1] = SumOf(Squares(LandedIn(calls, k)))

\* two unserialized calls with the weight 1.0 have both returned true from
\* the same bin, which holds 1.0 and 1.0 with n_entries 1: one after the
\* other they leave 2.0, 2.0 and 2
C12_Witness ==
    /\ Returned
    /\ lock = "unused"
    /\ \A t \in Threads : frame[t].ret = "true" /\ frame[t].weight = D(1)
    /\ frame["t1"].offset = frame["t2"].offset
    /\ n_entries_ = 1
    /\ bincontent_[frame["t1"].offset + 1] = D(1)
    /\ squaredweights_[frame["t1"].offset + 1] = D(1)
    /\ SumOf(LandedIn(calls, frame["t1"].offset)) = D(2)

====
